---- MODULE Spec2Model ----
(***************************************************************************)
(* TrtInt8Calibrator (source/common/trt_calibrator.h): the INT8            *)
(* calibrator that feeds batches to the engine, persists the calibration   *)
(* cache and transcodes an operator-written scale file into the cache.     *)
(*                                                                         *)
(* Files are sequences of one-character strings.  Device memory is a map   *)
(* from device addresses to regions.  The batch source (IBatchStream) and  *)
(* the CUDA runtime are collaborators outside this header; they are        *)
(* modelled by their contracts.  CUDA_CHECK is modelled on its success     *)
(* path (a failed CUDA call ends the process).                             *)
(***************************************************************************)
EXTENDS Integers, Sequences, FiniteSets, TLC

\* ---------------------------------------------------------------- bounds
MaxBatchSize == 2
MaxInputs == 2
MaxBatches == 2
MaxLines == 2

\* ------------------------------------------------- program constants
kLEGACY_CALIBRATION == 0
kENTROPY_CALIBRATION == 1
kENTROPY_CALIBRATION_2 == 2
kMINMAX_CALIBRATION == 3
ScaleDivisor == 127
MantBits == 23
ExpBias == 127
HexBase == 16
RegressionCutoff == 1

NL == "\n"
Delim == ":"
NoFile == [exists |-> FALSE, bytes |-> <<>>]
File(b) == [exists |-> TRUE, bytes |-> b]
Null == 0

RECURSIVE Pow(_, _)
Pow(b, n) == IF n = 0 THEN 1 ELSE b * Pow(b, n - 1)

\* ------------------------------------------------ std::getline(is, str, delim)
\* Index of the first delimiter d in s, or 0 when there is none.
RECURSIVE FindFrom(_, _, _)
FindFrom(s, d, i) ==
  IF i > Len(s) THEN 0 ELSE IF s[i] = d THEN i ELSE FindFrom(s, d, i + 1)

Find(s, d) == FindFrom(s, d, 1)

\* The characters getline extracts: up to the first delimiter or the end.
GetlineField(s, d) ==
  IF Find(s, d) = 0 THEN s ELSE SubSeq(s, 1, Find(s, d) - 1)

\* What is left in the stream: the delimiter is extracted and discarded.
GetlineRest(s, d) ==
  IF Find(s, d) = 0 THEN <<>> ELSE SubSeq(s, Find(s, d) + 1, Len(s))

\* getline reaching the end of the stream without meeting the delimiter sets
\* eofbit (and failbit too when nothing was extracted).
GetlineHitsEof(s, d) == Find(s, d) = 0

\* ------------------------------------------------------------- std::stof
DigitChars == <<"0", "1", "2", "3", "4", "5", "6", "7", "8", "9">>

IsDigit(c) == \E i \in 1..Len(DigitChars) : DigitChars[i] = c

DigitVal(c) == (CHOOSE i \in 1..Len(DigitChars) : DigitChars[i] = c) - 1

\* Length of the longest prefix of s from position i made of decimal digits.
RECURSIVE DigitRun(_, _)
DigitRun(s, i) ==
  IF i <= Len(s) /\ IsDigit(s[i]) THEN 1 + DigitRun(s, i + 1) ELSE 0

RECURSIVE DigitsValue(_)
DigitsValue(s) ==
  IF s = <<>> THEN 0
  ELSE 10 * DigitsValue(SubSeq(s, 1, Len(s) - 1)) + DigitVal(s[Len(s)])

\* The decimal number at the head of s as the exact fraction num / den:
\* digits, then optionally a point and more digits; parsing stops at the
\* first character that cannot continue the number.
ParseDecimal(s) ==
  LET ni == DigitRun(s, 1)
      hasPoint == ni < Len(s) /\ s[ni + 1] = "."
      nf == IF hasPoint THEN DigitRun(s, ni + 2) ELSE 0
      intPart == SubSeq(s, 1, ni)
      fracPart == SubSeq(s, ni + 2, ni + 1 + nf)
  IN  [valid |-> ni + nf > 0,
       num |-> DigitsValue(intPart) * Pow(10, nf) + DigitsValue(fracPart),
       den |-> Pow(10, nf)]

\* ------------------------------------------- IEEE-754 binary32 arithmetic
\* A positive float is [m, e] with 2^23 <= m < 2^24 and value m * 2^(e-23);
\* zero is [m |-> 0, e |-> 0].
FZero == [m |-> 0, e |-> 0]
MantOne == Pow(2, MantBits)
MantTop == Pow(2, MantBits + 1)

\* Quotient bits of n / d for d <= n < 2d: q collects the bits, r the remainder.
RECURSIVE DivBits(_, _, _, _)
DivBits(q, r, d, k) ==
  IF k = 0 THEN [q |-> q, r |-> r]
  ELSE IF 2 * r >= d THEN DivBits(2 * q + 1, 2 * r - d, d, k - 1)
       ELSE DivBits(2 * q, 2 * r, d, k - 1)

RECURSIVE ScaleUp(_, _)
\* Largest k with d * 2^k <= n (n >= d).
ScaleUp(n, d) == IF 2 * d <= n THEN 1 + ScaleUp(n, 2 * d) ELSE 0

RECURSIVE ScaleDown(_, _)
\* Smallest j with n * 2^j >= d (n < d).
ScaleDown(n, d) == IF n < d THEN 1 + ScaleDown(2 * n, d) ELSE 0

\* n / d rounded to the nearest binary32, ties to even.
RoundDiv(n, d) ==
  IF n = 0 THEN FZero
  ELSE
    LET up == IF n >= d THEN ScaleUp(n, d) ELSE 0
        down == IF n < d THEN ScaleDown(n, d) ELSE 0
        N == n * Pow(2, down)
        D == d * Pow(2, up)
        qr == DivBits(1, N - D, D, MantBits)
        roundUp == \/ 2 * qr.r > D
                   \/ (2 * qr.r = D /\ qr.q % 2 = 1)
        m == IF roundUp THEN qr.q + 1 ELSE qr.q
        e == up - down
    IN  IF m = MantTop THEN [m |-> MantOne, e |-> e + 1]
        ELSE [m |-> m, e |-> e]

\* std::stof(scaleStr): the decimal text rounded to binary32.
Stof(s) == LET p == ParseDecimal(s) IN RoundDiv(p.num, p.den)

\* x / 127.0f in binary32.  The mantissa is reduced by its trailing zero bits
\* first; the quotient is the same and the intermediate values stay small.
RECURSIVE TrailingZeros(_)
TrailingZeros(m) == IF m > 0 /\ m % 2 = 0 THEN 1 + TrailingZeros(m \div 2) ELSE 0

\* Mutant: the division by 127 is left out.
FDivScale_noDiv(x) == x

FDivScale(x) ==
  IF x.m = 0 THEN FZero
  ELSE
    LET tz == TrailingZeros(x.m)
        q == RoundDiv(x.m \div Pow(2, tz), ScaleDivisor)
    IN  [m |-> q.m, e |-> q.e + x.e - (MantBits - tz)]

\* union scaleField: the bits of the float read as a uint32_t.
Ieee754(x) ==
  IF x.m = 0 THEN 0
  ELSE (x.e + ExpBias) * MantOne + (x.m - MantOne)

\* operator<< with std::hex: lowercase digits, no prefix, no padding.
HexChars == <<"0", "1", "2", "3", "4", "5", "6", "7",
              "8", "9", "a", "b", "c", "d", "e", "f">>

RECURSIVE HexText(_)
HexText(n) ==
  IF n < HexBase THEN <<HexChars[n + 1]>>
  ELSE HexText(n \div HexBase) \o <<HexChars[(n % HexBase) + 1]>>

\* The text written for a scale field: the hex of the bits of stof(s) / 127.0f.
ScaleHex(s) == HexText(Ieee754(FDivScale(Stof(s))))


\* ------------------------------------------------------- setScaleFile loop
\* The second getline(iline, scaleStr, delim) of an iteration.  When the first
\* getline ran into the end of the line without meeting a colon, iline is no
\* longer good, the sentry fails and scaleStr is not erased: it keeps the text
\* of the previous iteration (scaleStr is declared outside the loop).
ScaleField(line, scaleStr) ==
  IF GetlineHitsEof(line, Delim) THEN scaleStr
  ELSE GetlineField(GetlineRest(line, Delim), Delim)

\* The text one iteration writes to fo.
EmitLine(tensorName, scaleStr) ==
  IF Len(scaleStr) = 0 THEN tensorName \o <<NL>>
  ELSE tensorName \o <<Delim, " ">> \o ScaleHex(scaleStr) \o <<NL>>

\* while (std::getline(fi, line)) { ... }: rest is what fi still holds,
\* scaleStr the variable carried across iterations, out the text written.
\* std::stof throws std::invalid_argument when no number starts the field.
RECURSIVE TranscodeLoop(_, _, _)
TranscodeLoop(rest, scaleStr, out) ==
  IF rest = <<>> THEN [out |-> out, thrown |-> FALSE]
  ELSE
    LET line == GetlineField(rest, NL)
        tensorName == GetlineField(line, Delim)
        scale == ScaleField(line, scaleStr)
    IN  IF Len(scale) # 0 /\ ~ParseDecimal(scale).valid
        THEN [out |-> out, thrown |-> TRUE]
        ELSE TranscodeLoop(GetlineRest(rest, NL), scale,
                           out \o EmitLine(tensorName, scale))

Transcode(src) == TranscodeLoop(src, <<>>, <<>>)

\* Mutant: the file is opened without truncation (what it held stays).
OpenTrunc_keep(file, canWrite) == IF canWrite THEN File(file.bytes) ELSE file

\* std::ofstream fo(path) of a call: opening for output truncates the file
\* (or creates it empty); when the path cannot be opened the file stays as it
\* is and every later write to fo is dropped.
OpenTrunc(file, canWrite) == IF canWrite THEN File(<<>>) ELSE file

\* Mutant: the text reaches the file even when the path was not opened.
FoWrite_force(file, canWrite, text) == File(file.bytes \o text)

\* fo.write / fo << text on a stream opened by OpenTrunc: the text
\* goes after what fo has written so far.
FoWrite(file, canWrite, text) ==
  IF canWrite THEN File(file.bytes \o text) ELSE file

\* ------------------------------------------------------------ input sets
\* The lines of an override file: a name with a decimal scale (a:1, a:2.0),
\* a name with an empty scale (b:) and a bare name (b).
Lines == {<<"a", Delim, "1">>, <<"a", Delim, "2", ".", "0">>,
          <<"b", Delim>>, <<"b">>}

RECURSIVE FilesOf(_)
\* The override files of exactly n lines, every line ended by a newline.
FilesOf(n) ==
  IF n = 0 THEN {<<>>}
  ELSE {f \o l \o <<NL>> : f \in FilesOf(n - 1), l \in Lines}

ScaleFiles == UNION {FilesOf(n) : n \in 0..MaxLines}

\* The buffers handed to writeCalibrationCache.
Blobs == {<<"x", "y">>, <<"z">>}

AlgoKeys == {"legacy", "entropy", "entropy_2", "minmax"}


\* ------------------------------------------------------------------ state
VARIABLES
  phase,              \* "new", "live", "destroyed" or "crashed"
  mStream,            \* the batch source, or NoStream (a null shared_ptr)
  mAlgo, mBatchSize, mInputBytes, m_buffers, mCalibrationCache,
  dev,                \* device memory: address -> region
  bindings,           \* the caller's bindings[] array
  cacheFile,          \* the file named mCalibrationTableName
  writable,           \* whether that path can be opened for writing
  ret,                \* the last call and what it returned
  built               \* the constructor call: its arguments, what the source
                      \* reported and the buffers it allocated

vars == <<phase, mStream, mAlgo, mBatchSize, mInputBytes, m_buffers,
          mCalibrationCache, dev, bindings, cacheFile, writable, ret, built>>

\* ------------------------------------------------- IBatchStream (contract)
NoStream == [present |-> FALSE, batchSize |-> 0, bytes |-> <<>>,
             left |-> 0, cur |-> 0]

\* n inputs of n, n-1, .. 1 bytes per sample.
BytesOf(n) == [i \in 1..n |-> n + 1 - i]

\* A source of MaxBatches batches, none consumed yet.
Streams ==
  {[present |-> TRUE, batchSize |-> b, bytes |-> BytesOf(n),
    left |-> MaxBatches, cur |-> 0] :
     b \in 1..MaxBatchSize, n \in 1..MaxInputs}

\* next(): advances to the next batch, false once the source is exhausted.
StreamHasNext(s) == s.left > 0
\* Mutant: two batches are consumed by one call.
StreamNext_twice(s) ==
  IF s.left > 1 THEN [s EXCEPT !.left = @ - 2, !.cur = @ + 2]
  ELSE IF s.left > 0 THEN [s EXCEPT !.left = @ - 1, !.cur = @ + 1] ELSE s

StreamNext(s) ==
  IF StreamHasNext(s) THEN [s EXCEPT !.left = @ - 1, !.cur = @ + 1] ELSE s

\* getBatch(): one host buffer per input holding the current batch; byte j of
\* input i of batch k is a value that tells k, i and j apart.
HostBatch(k, i, n) == [j \in 1..n |-> 100 * k + 10 * i + j]
StreamGetBatch(s) ==
  [i \in 1..Len(s.bytes) |-> HostBatch(s.cur, i, s.batchSize * s.bytes[i])]

\* ------------------------------------------------------ CUDA runtime
DevAddrs == 1..MaxInputs
\* A pointer value that is neither null nor a device buffer of the object.
Wild == MaxInputs + 1
Uninit == 0
FreeRegion == [allocated |-> FALSE, cap |-> 0, data |-> <<>>]

\* cudaMalloc(&tmp, size): a fresh region of size bytes, content not set.
CudaMallocAddr(d) == CHOOSE a \in DevAddrs :
  ~d[a].allocated /\ \A b \in DevAddrs : ~d[b].allocated => a <= b
CudaMalloc(d, size) ==
  [d EXCEPT ![CudaMallocAddr(d)] =
     [allocated |-> TRUE, cap |-> size, data |-> [j \in 1..size |-> Uninit]]]

\* cudaMemcpy(dst, src, count, cudaMemcpyHostToDevice).
CudaMemcpy(d, dst, src, count) ==
  [d EXCEPT ![dst].data = [j \in 1..Len(@) |-> IF j <= count THEN src[j] ELSE @[j]]]

CudaFree(d, a) == [d EXCEPT ![a] = FreeRegion]


\* ---------------------------------------------------------- construction
\* Mutant: the two entropy entries of the table are exchanged.
STR2CAT_MAPPING_swapped ==
  [k \in {"legacy", "entropy", "entropy_2", "minmax"} |->
     CASE k = "legacy" -> kLEGACY_CALIBRATION
       [] k = "entropy" -> kENTROPY_CALIBRATION_2
       [] k = "entropy_2" -> kENTROPY_CALIBRATION
       [] k = "minmax" -> kMINMAX_CALIBRATION]

\* STR2CAT_MAPPING: the table from algorithm keys to selectors.
STR2CAT_MAPPING ==
  [k \in {"legacy", "entropy", "entropy_2", "minmax"} |->
     CASE k = "legacy" -> kLEGACY_CALIBRATION
       [] k = "entropy" -> kENTROPY_CALIBRATION
       [] k = "entropy_2" -> kENTROPY_CALIBRATION_2
       [] k = "minmax" -> kMINMAX_CALIBRATION]

Selectors == {kLEGACY_CALIBRATION, kENTROPY_CALIBRATION,
              kENTROPY_CALIBRATION_2, kMINMAX_CALIBRATION}

\* mAlgo = STR2CAT_MAPPING.find(algo)->second.  For a key that is not in the
\* table find() returns end() and reading through it is undefined: the
\* process crashes, or some selector is read from whatever end() refers to.
FindSelector(algo) ==
  IF algo \in DOMAIN STR2CAT_MAPPING
  THEN {[crash |-> FALSE, sel |-> STR2CAT_MAPPING[algo]]}
  ELSE {[crash |-> TRUE, sel |-> kENTROPY_CALIBRATION]}
       \cup {[crash |-> FALSE, sel |-> g] : g \in Selectors}

\* Mutant: room for one sample instead of the whole batch.
AllocSize_noBatch(batchSize, bytes) == bytes

\* The size handed to cudaMalloc for one input.
AllocSize(batchSize, bytes) == batchSize * bytes

\* for (auto& bytes : mInputBytes) { cudaMalloc; m_buffers.push_back(tmp); }
RECURSIVE AllocLoop(_, _, _, _, _)
AllocLoop(bytes, batchSize, i, d, bufs) ==
  IF i > Len(bytes) THEN [dev |-> d, buffers |-> bufs]
  ELSE AllocLoop(bytes, batchSize, i + 1,
                 CudaMalloc(d, AllocSize(batchSize, bytes[i])),
                 bufs \o <<CudaMallocAddr(d)>>)

\* The process dies: the object, the caller's arrays and the device
\* allocations are gone with it; the files stay as they are.
Crash ==
  /\ phase' = "crashed"
  /\ ret' = [op |-> "crash"]
  /\ mStream' = NoStream
  /\ mAlgo' = kENTROPY_CALIBRATION
  /\ mBatchSize' = 0
  /\ mInputBytes' = <<>>
  /\ m_buffers' = <<>>
  /\ mCalibrationCache' = <<>>
  /\ dev' = [a \in DevAddrs |-> FreeRegion]
  /\ bindings' = [i \in DOMAIN bindings |-> Null]

\* TrtInt8Calibrator(stream, cacheFilename, algo)
ConstructFromStream(stream, algo) ==
  /\ phase = "new"
  /\ \E f \in FindSelector(algo) :
       IF f.crash
       THEN Crash
       ELSE LET a == AllocLoop(stream.bytes, stream.batchSize, 1, dev, <<>>)
            IN  /\ phase' = "live"
                /\ mStream' = stream
                /\ mAlgo' = f.sel
                /\ mInputBytes' = stream.bytes
                /\ mBatchSize' = stream.batchSize
                /\ m_buffers' = a.buffers
                /\ dev' = a.dev
                /\ ret' = [op |-> "ctor"]
                /\ UNCHANGED <<mCalibrationCache, bindings>>
  /\ built' = [mode |-> "stream", algo |-> algo, batchSize |-> stream.batchSize,
               bytes |-> stream.bytes,
               buffers |-> AllocLoop(stream.bytes, stream.batchSize, 1, dev, <<>>).buffers]
  /\ UNCHANGED <<cacheFile, writable>>

\* TrtInt8Calibrator(cacheFilename, algo, batchsize, quantile)
ConstructFromCache(algo, batchsize) ==
  /\ phase = "new"
  /\ \E f \in FindSelector(algo) :
       IF f.crash
       THEN Crash
       ELSE /\ phase' = "live"
            /\ mAlgo' = f.sel
            /\ mBatchSize' = batchsize
            /\ ret' = [op |-> "ctor"]
            /\ UNCHANGED <<mStream, mInputBytes, m_buffers, dev,
                           mCalibrationCache, bindings>>
  /\ built' = [mode |-> "cache", algo |-> algo, batchSize |-> batchsize,
               bytes |-> <<>>, buffers |-> <<>>]
  /\ UNCHANGED <<cacheFile, writable>>

\* Mutant: the first buffer is never released.
RECURSIVE FreeLoop_leak(_, _, _)
FreeLoop_leak(bufs, i, d) ==
  IF i > Len(bufs) THEN d
  ELSE FreeLoop_leak(bufs, i + 1, IF i = 1 THEN d ELSE CudaFree(d, bufs[i]))

\* ~TrtInt8Calibrator()
RECURSIVE FreeLoop(_, _, _)
FreeLoop(bufs, i, d) ==
  IF i > Len(bufs) THEN d ELSE FreeLoop(bufs, i + 1, CudaFree(d, bufs[i]))

Destructor ==
  /\ phase = "live"
  /\ phase' = "destroyed"
  /\ dev' = FreeLoop(m_buffers, 1, dev)
  /\ ret' = [op |-> "dtor"]
  /\ UNCHANGED <<mStream, mAlgo, mBatchSize, mInputBytes, m_buffers,
                 mCalibrationCache, bindings, cacheFile, writable, built>>

\* ----------------------------------------------------------- accessors
\* Mutant: the batches the source still holds are reported instead.
getBatchSize_left == IF mStream.present THEN mStream.left ELSE mBatchSize

getBatchSize == mBatchSize
getAlgorithm == mAlgo

\* --------------------------------------------------------------- getBatch
\* Mutant: the result of next() is ignored.
StreamExhausted_never(s) == FALSE

\* if (!mStream->next()) return false;
StreamExhausted(s) == ~StreamHasNext(s)

\* Mutant: one sample is copied instead of the whole batch.
CopyCount_noBatch(i) == mInputBytes[i]

\* The byte count of the copy for input i.
CopyCount(i) == mInputBytes[i] * mBatchSize

\* The device buffer written into bindings[i].
BindingFor(i) == m_buffers[i]

\* for (i = 0; i < nbBindings; ++i) { cudaMemcpy(...); bindings[i] = ...; }
\* run for the inputs i..n, on device memory d and bindings array b.
RECURSIVE CopyLoop(_, _, _, _, _)
CopyLoop(i, n, d, b, ptrs) ==
  IF i > n THEN [dev |-> d, bindings |-> b]
  ELSE CopyLoop(i + 1, n,
                CudaMemcpy(d, m_buffers[i], ptrs[i], CopyCount(i)),
                [b EXCEPT ![i] = BindingFor(i)], ptrs)

Min(a, b) == IF a <= b THEN a ELSE b

\* What a call getBatch(bindings, names, nbBindings) can do.  Two cases are
\* undefined: the call through a null mStream, and an index past the end of
\* m_buffers / mInputBytes / batch_ptrs when nbBindings exceeds the number of
\* inputs.  Either crashes the process or goes on with whatever was read (the
\* pointers read past the end are null or wild).
GetBatchOutcomes(nbBindings) ==
  IF ~mStream.present
  THEN {[crash |-> TRUE, stream |-> mStream, dev |-> dev, bindings |-> bindings,
         val |-> FALSE]}
       \cup {[crash |-> FALSE, stream |-> mStream, dev |-> dev,
              bindings |-> bindings, val |-> v] : v \in BOOLEAN}
  ELSE IF StreamExhausted(mStream)
  THEN {[crash |-> FALSE, stream |-> StreamNext(mStream), dev |-> dev,
         bindings |-> bindings, val |-> FALSE]}
  ELSE
    LET s == StreamNext(mStream)
        n == Min(nbBindings, Len(m_buffers))
        c == CopyLoop(1, n, dev, bindings, StreamGetBatch(s))
    IN  IF nbBindings <= Len(m_buffers)
        THEN {[crash |-> FALSE, stream |-> s, dev |-> c.dev,
               bindings |-> c.bindings, val |-> TRUE]}
        ELSE {[crash |-> TRUE, stream |-> s, dev |-> c.dev,
               bindings |-> c.bindings, val |-> FALSE]}
             \cup {[crash |-> FALSE, stream |-> s, dev |-> c.dev,
                    bindings |-> [i \in DOMAIN bindings |->
                                    IF i > n /\ i <= nbBindings THEN g
                                    ELSE c.bindings[i]],
                    val |-> TRUE] : g \in {Null, Wild}}

getBatch(nbBindings) ==
  /\ phase = "live"
  /\ \E o \in GetBatchOutcomes(nbBindings) :
       IF o.crash THEN Crash
       ELSE /\ phase' = "live"
            /\ mStream' = o.stream
            /\ dev' = o.dev
            /\ bindings' = o.bindings
            /\ ret' = [op |-> "getBatch", val |-> o.val,
                       nbBindings |-> nbBindings,
                       advanced |-> mStream.present /\ StreamHasNext(mStream)]
            /\ UNCHANGED <<mAlgo, mBatchSize, mInputBytes, m_buffers,
                           mCalibrationCache>>
  /\ UNCHANGED <<cacheFile, writable, built>>


\* --------------------------------------------------- readCalibrationCache
\* std::string::resize(n): cut to n characters or padded with '\0'.
Resize(str, n) == [j \in 1..n |-> IF j <= Len(str) THEN str[j] ELSE "\\0"]

\* fi.read(buf, n) from the start of the file into the first n characters.
FiRead(buf, bytes, n) == [j \in 1..Len(buf) |-> IF j <= n THEN bytes[j] ELSE buf[j]]

\* fi.seekg(0, end); length = fi.tellg();
FileLength(file) == Len(file.bytes)

\* Mutant: a string already held is returned without reading the file again.
CacheAfterRead_stale(held, file) == IF held # <<>> THEN held ELSE file.bytes

\* The string held after a read that found the file.
CacheAfterRead(held, file) ==
  FiRead(Resize(held, FileLength(file)), file.bytes, FileLength(file))

\* Mutant: a read that misses drops the string held from the last read.
readCalibrationCache_clears ==
  /\ phase = "live"
  /\ IF ~cacheFile.exists
     THEN /\ ret' = [op |-> "readCalibrationCache", ptr |-> "nullptr", length |-> 0]
          /\ mCalibrationCache' = <<>>
     ELSE /\ mCalibrationCache' = CacheAfterRead(mCalibrationCache, cacheFile)
          /\ ret' = [op |-> "readCalibrationCache", ptr |-> "mCalibrationCache",
                     length |-> FileLength(cacheFile)]
  /\ UNCHANGED <<phase, mStream, mAlgo, mBatchSize, mInputBytes, m_buffers, dev,
                 bindings, cacheFile, writable, built>>

readCalibrationCache ==
  /\ phase = "live"
  /\ IF ~cacheFile.exists
     THEN /\ ret' = [op |-> "readCalibrationCache", ptr |-> "nullptr", length |-> 0]
          /\ UNCHANGED mCalibrationCache
     ELSE /\ mCalibrationCache' = CacheAfterRead(mCalibrationCache, cacheFile)
          /\ ret' = [op |-> "readCalibrationCache", ptr |-> "mCalibrationCache",
                     length |-> FileLength(cacheFile)]
  /\ UNCHANGED <<phase, mStream, mAlgo, mBatchSize, mInputBytes, m_buffers, dev,
                 bindings, cacheFile, writable, built>>

\* -------------------------------------------------- writeCalibrationCache
\* Mutant: the whole buffer is written whatever length says.
WrittenBytes_whole(cache, length) == cache

\* fo.write((const char*)cache, length)
WrittenBytes(cache, length) == SubSeq(cache, 1, length)

writeCalibrationCache(cache, length) ==
  /\ phase = "live"
  /\ cacheFile' = FoWrite(OpenTrunc(cacheFile, writable), writable,
                          WrittenBytes(cache, length))
  /\ ret' = [op |-> "writeCalibrationCache", cache |-> cache, length |-> length]
  /\ UNCHANGED <<phase, mStream, mAlgo, mBatchSize, mInputBytes, m_buffers,
                 mCalibrationCache, dev, bindings, writable, built>>

\* ----------------------------------------------------------- setScaleFile
\* src is the file named by the argument, NoFile when it cannot be opened.
\* fo is opened on the cache path before fi is tested.
setScaleFile(src) ==
  /\ phase = "live"
  /\ LET fo == OpenTrunc(cacheFile, writable)
         t == Transcode(src.bytes)
     IN  IF ~src.exists
         THEN /\ cacheFile' = fo
              /\ ret' = [op |-> "setScaleFile", src |-> src, thrown |-> FALSE]
         ELSE /\ cacheFile' = FoWrite(fo, writable, t.out)
              /\ ret' = [op |-> "setScaleFile", src |-> src, thrown |-> t.thrown]
  /\ UNCHANGED <<phase, mStream, mAlgo, mBatchSize, mInputBytes, m_buffers,
                 mCalibrationCache, dev, bindings, writable, built>>

\* ------------------------------------------------------ legacy accessors
\* double getRegressionCutoff() const { return 1.0; }
getRegressionCutoff ==
  /\ phase = "live"
  /\ ret' = [op |-> "getRegressionCutoff", val |-> RegressionCutoff]
  /\ UNCHANGED <<phase, mStream, mAlgo, mBatchSize, mInputBytes, m_buffers,
                 mCalibrationCache, dev, bindings, cacheFile, writable, built>>

\* const void* readHistogramCache(std::size_t& length) { return nullptr; }
\* length is not assigned.
readHistogramCache ==
  /\ phase = "live"
  /\ ret' = [op |-> "readHistogramCache", ptr |-> "nullptr"]
  /\ UNCHANGED <<phase, mStream, mAlgo, mBatchSize, mInputBytes, m_buffers,
                 mCalibrationCache, dev, bindings, cacheFile, writable, built>>

\* Mutant: the histogram is stored in the calibration cache file.
writeHistogramCache_stores(ptr, length) ==
  /\ phase = "live"
  /\ cacheFile' = FoWrite(OpenTrunc(cacheFile, writable), writable,
                          SubSeq(ptr, 1, length))
  /\ ret' = [op |-> "writeHistogramCache", ptr |-> ptr, length |-> length]
  /\ UNCHANGED <<phase, mStream, mAlgo, mBatchSize, mInputBytes, m_buffers,
                 mCalibrationCache, dev, bindings, writable, built>>

\* void writeHistogramCache(const void* ptr, std::size_t length) { return; }
writeHistogramCache(ptr, length) ==
  /\ phase = "live"
  /\ ret' = [op |-> "writeHistogramCache", ptr |-> ptr, length |-> length]
  /\ UNCHANGED <<phase, mStream, mAlgo, mBatchSize, mInputBytes, m_buffers,
                 mCalibrationCache, dev, bindings, cacheFile, writable, built>>

\* ------------------------------------------------------- specifications
\* Before construction: the members hold their default initialisers, the
\* cache path holds whatever an earlier run left there.
InitFiles == {NoFile, File(<<"y">>)}

Init ==
  /\ phase = "new"
  /\ mStream = NoStream
  /\ mAlgo = kENTROPY_CALIBRATION
  /\ mBatchSize = 0
  /\ mInputBytes = <<>>
  /\ m_buffers = <<>>
  /\ mCalibrationCache = <<>>
  /\ dev = [a \in DevAddrs |-> FreeRegion]
  /\ bindings = [i \in 1..(MaxInputs + 1) |-> Null]
  /\ cacheFile \in InitFiles
  /\ writable \in BOOLEAN
  /\ ret = [op |-> "none"]
  /\ built = [mode |-> "none", algo |-> "", batchSize |-> 0, bytes |-> <<>>,
              buffers |-> <<>>]

Keys == AlgoKeys \cup {"bogus"}

\* The live object under every supported key and both constructors, with
\* one input to each cache operation.
TinyBlobs == {<<"x">>}
TinySources == {NoFile, File(<<"a", Delim, "1", NL>>)}

Next ==
  \/ \E s \in Streams, k \in AlgoKeys : ConstructFromStream(s, k)
  \/ \E k \in AlgoKeys, b \in 1..MaxBatchSize : ConstructFromCache(k, b)
  \/ \E n \in 1..(MaxInputs + 1) : getBatch(n)
  \/ readCalibrationCache
  \/ \E c \in TinyBlobs : writeCalibrationCache(c, Len(c))
  \/ \E src \in TinySources : setScaleFile(src)

Spec == Init /\ [][Next]_vars

\* One stream-fed object of a single one-byte input, with cache blobs of
\* several lengths and override files whose output is longer or shorter
\* than what the cache held.
CacheStream == [present |-> TRUE, batchSize |-> 1, bytes |-> BytesOf(1),
                left |-> MaxBatches, cur |-> 0]
SmallSources == {NoFile, File(<<"a", Delim, "1", NL, "b", NL>>),
                 File(<<"b", Delim, NL>>)}

NextCache ==
  \/ ConstructFromStream(CacheStream, "entropy")
  \/ getBatch(Len(CacheStream.bytes))
  \/ readCalibrationCache
  \/ \E c \in Blobs : \E n \in 0..Len(c) : writeCalibrationCache(c, n)
  \/ \E src \in SmallSources : setScaleFile(src)

SpecCache == Init /\ [][NextCache]_vars

\* The override transcoder of one object over every override file of up to
\* MaxLines lines.
Sources == {NoFile} \cup {File(f) : f \in ScaleFiles}

NextScale ==
  \/ ConstructFromCache("entropy", 1)
  \/ readCalibrationCache
  \/ \E src \in Sources : setScaleFile(src)

SpecScale == Init /\ [][NextScale]_vars

\* Construction under every key, the supported ones and one that is not in
\* the table, followed by batches and cache reads and writes.
NextKeys ==
  \/ \E s \in Streams, k \in Keys : ConstructFromStream(s, k)
  \/ \E k \in Keys, b \in 1..MaxBatchSize : ConstructFromCache(k, b)
  \/ getBatch(Len(built.bytes))
  \/ readCalibrationCache
  \/ \E c \in TinyBlobs : writeCalibrationCache(c, Len(c))

SpecKeys == Init /\ [][NextKeys]_vars

\* The encoding of one scale: override files of a single line t:s, for the
\* decimal texts s of one or two digits with at most one digit after the
\* point (1, 1.0, 0.5, 15, 10.5, ...).
ScaleDigits == {"0", "1", "5"}
ScaleTexts ==
  {<<a>> : a \in ScaleDigits}
    \cup {<<a, ".", b>> : a \in ScaleDigits, b \in ScaleDigits}
    \cup {<<a, b>> : a \in ScaleDigits \ {"0"}, b \in ScaleDigits}
    \cup {<<a, b, ".", c>> : a \in ScaleDigits \ {"0"}, b \in ScaleDigits,
                             c \in ScaleDigits}
HexSources == {File(<<"t", Delim>> \o s \o <<NL>>) : s \in ScaleTexts}

NextHex ==
  \/ ConstructFromCache("entropy", 1)
  \/ readCalibrationCache
  \/ \E src \in HexSources : setScaleFile(src)

SpecHex == Init /\ [][NextHex]_vars

\* The whole life of an object, from either constructor to the destructor,
\* with every operation of the class in between.
NextLife ==
  \/ \E s \in Streams : ConstructFromStream(s, "entropy")
  \/ ConstructFromCache("entropy", 1)
  \/ getBatch(Len(built.bytes))
  \/ readCalibrationCache
  \/ \E c \in TinyBlobs : writeCalibrationCache(c, Len(c))
  \/ \E src \in TinySources : setScaleFile(src)
  \/ getRegressionCutoff
  \/ readHistogramCache
  \/ \E c \in TinyBlobs : writeHistogramCache(c, Len(c))
  \/ Destructor

SpecLife == Init /\ [][NextLife]_vars

\* The cache operations of one stream-fed object while the cache file can
\* also disappear from the file system between two calls (an operator
\* deletes it), so that a read can miss after an earlier read has hit.
RemoveCacheFile ==
  /\ phase = "live"
  /\ cacheFile.exists
  /\ cacheFile' = NoFile
  /\ UNCHANGED <<phase, mStream, mAlgo, mBatchSize, mInputBytes, m_buffers,
                 mCalibrationCache, dev, bindings, writable, ret, built>>

NextHeld ==
  \/ NextCache
  \/ RemoveCacheFile

SpecHeld == Init /\ [][NextHeld]_vars


\* =================================================================
\* Properties
\* =================================================================
Live == phase = "live"

\* The lines of a text, each without its newline.
RECURSIVE SplitLines(_)
SplitLines(text) ==
  IF text = <<>> THEN <<>>
  ELSE <<GetlineField(text, NL)>> \o SplitLines(GetlineRest(text, NL))

\* The name field of a line: the text before its first colon.
NameField(line) == GetlineField(line, Delim)

\* The scale field of a line: the text between its first and second colon,
\* empty when the line has no colon.
ScaleFieldOf(line) ==
  IF Find(line, Delim) = 0 THEN <<>>
  ELSE GetlineField(GetlineRest(line, Delim), Delim)

IsHexText(h) ==
  /\ Len(h) > 0
  /\ \A i \in 1..Len(h) : \E j \in 1..Len(HexChars) : HexChars[j] = h[i]

\* line is name, a colon, a space and hex digits.
IsScaledLine(line, name) ==
  /\ Len(line) > Len(name) + 2
  /\ SubSeq(line, 1, Len(name) + 2) = name \o <<Delim, " ">>
  /\ IsHexText(SubSeq(line, Len(name) + 3, Len(line)))

\* A setScaleFile call on an openable source has just written the cache.
Transcoded ==
  /\ Live
  /\ ret.op = "setScaleFile"
  /\ ret.src.exists
  /\ writable

\* C1: a setScaleFile call whose source file cannot be opened leaves the
\* cache file as it was, in existence and in bytes.
C1_MissingSourceKeepsCache ==
  [][(Live /\ ret'.op = "setScaleFile" /\ ~ret'.src.exists)
       => cacheFile' = cacheFile]_vars

\* C2: a readCalibrationCache that follows a writeCalibrationCache(cache,
\* length) on a writable path returns length and exactly the first length
\* bytes of cache, whatever the file held before.
C2_WriteReadRoundTrip ==
  [][(Live /\ ret.op = "writeCalibrationCache" /\ writable
        /\ ret'.op = "readCalibrationCache")
       => /\ ret'.ptr = "mCalibrationCache"
          /\ ret'.length = ret.length
          /\ mCalibrationCache' = SubSeq(ret.cache, 1, ret.length)]_vars

\* A read has returned the one byte written from a two-byte buffer.
C2_Witness ==
  /\ Live
  /\ ret.op = "readCalibrationCache"
  /\ ret.length = 1
  /\ mCalibrationCache = <<"x">>

\* C3: readCalibrationCache returns null and length 0 when the cache file
\* does not exist; when it exists it returns the held string, which then is
\* the whole file as it is now, and the file's byte count.
C3_ReadReflectsFile ==
  (Live /\ ret.op = "readCalibrationCache")
    => IF cacheFile.exists
       THEN /\ ret.ptr = "mCalibrationCache"
            /\ ret.length = Len(cacheFile.bytes)
            /\ mCalibrationCache = cacheFile.bytes
       ELSE /\ ret.ptr = "nullptr"
            /\ ret.length = 0

\* A read of an existing empty file: not null, length 0.
C3_Witness ==
  /\ Live
  /\ ret.op = "readCalibrationCache"
  /\ cacheFile = File(<<>>)
  /\ ret.ptr = "mCalibrationCache"
  /\ ret.length = 0

\* C4: a getBatch call on an exhausted source returns false and changes no
\* device buffer and no entry of the bindings array.
C4_ExhaustedNoCopy ==
  [][(Live /\ mStream.present /\ ~StreamHasNext(mStream) /\ ret'.op = "getBatch")
       => /\ ret'.val = FALSE
          /\ dev' = dev
          /\ bindings' = bindings]_vars

\* The call after the last batch has returned false.
C4_Witness ==
  /\ Live
  /\ ret.op = "getBatch"
  /\ ~ret.advanced
  /\ ret.val = FALSE
  /\ mStream.present
  /\ mStream.cur = MaxBatches
  /\ bindings[1] = m_buffers[1]

\* C5: a getBatch call that finds a batch, with nbBindings the number of
\* inputs, returns true; device buffer i then holds the batch_size * bytes[i]
\* bytes of the current batch for input i, and bindings[i] is the buffer
\* allocated for input i at construction.
C5_BatchCopied ==
  (Live /\ ret.op = "getBatch" /\ ret.advanced
        /\ ret.nbBindings = Len(built.bytes))
    => /\ ret.val = TRUE
       /\ \A i \in 1..ret.nbBindings :
            /\ bindings[i] = built.buffers[i]
            /\ dev[built.buffers[i]].allocated
            /\ Len(dev[built.buffers[i]].data) = built.batchSize * built.bytes[i]
            /\ dev[built.buffers[i]].data = StreamGetBatch(mStream)[i]

\* The second batch of a two-input source with batch size 2 has been copied.
C5_Witness ==
  /\ Live
  /\ ret.op = "getBatch"
  /\ ret.val = TRUE
  /\ ret.nbBindings = MaxInputs
  /\ Len(built.bytes) = MaxInputs
  /\ built.batchSize = MaxBatchSize
  /\ mStream.cur = MaxBatches

\* C6: a stream-fed object has one device buffer per input size the source
\* reported at construction, buffer i has capacity batch_size * bytes[i], and
\* the buffers are the ones allocated at construction.
C6_BuffersFixed ==
  (Live /\ built.mode = "stream")
    => /\ Len(m_buffers) = Len(built.bytes)
       /\ m_buffers = built.buffers
       /\ \A i \in 1..Len(m_buffers) :
            /\ dev[m_buffers[i]].allocated
            /\ dev[m_buffers[i]].cap = built.batchSize * built.bytes[i]
            /\ Len(dev[m_buffers[i]].data) = dev[m_buffers[i]].cap
       /\ \A i, j \in 1..Len(m_buffers) : m_buffers[i] = m_buffers[j] => i = j

\* Two buffers of a batch-size-2 object, after batches were copied and the
\* cache was rewritten from a scale file.
C6_Witness ==
  /\ Live
  /\ built.mode = "stream"
  /\ Len(m_buffers) = MaxInputs
  /\ built.batchSize = MaxBatchSize
  /\ mStream.cur = MaxBatches
  /\ ret.op = "setScaleFile"

\* C7: a line of the override file whose scale field is empty or absent is
\* written as its name alone, whatever lines precede it.
C7_EmptyScaleEmitsName ==
  Transcoded =>
    \A k \in 1..Len(SplitLines(ret.src.bytes)) :
      ScaleFieldOf(SplitLines(ret.src.bytes)[k]) = <<>>
        => /\ k <= Len(SplitLines(cacheFile.bytes))
           /\ SplitLines(cacheFile.bytes)[k] = NameField(SplitLines(ret.src.bytes)[k])

\* C8: the output has one line per input line, in order; a line with a
\* non-empty scale field becomes name, colon, space, hex, every other line
\* becomes its name alone.
C8_OneLinePerLine ==
  Transcoded =>
    /\ Len(SplitLines(cacheFile.bytes)) = Len(SplitLines(ret.src.bytes))
    /\ \A k \in 1..Len(SplitLines(ret.src.bytes)) :
         IF ScaleFieldOf(SplitLines(ret.src.bytes)[k]) = <<>>
         THEN SplitLines(cacheFile.bytes)[k] = NameField(SplitLines(ret.src.bytes)[k])
         ELSE IsScaledLine(SplitLines(cacheFile.bytes)[k],
                           NameField(SplitLines(ret.src.bytes)[k]))

\* C9: a readCalibrationCache that follows a setScaleFile on an openable
\* source returns the text transcoded by that call and its length, and
\* nothing of what the cache held before.
C9_ScaleFileReplacesCache ==
  [][(Transcoded /\ ret'.op = "readCalibrationCache")
       => /\ ret'.ptr = "mCalibrationCache"
          /\ mCalibrationCache' = Transcode(ret.src.bytes).out
          /\ ret'.length = Len(Transcode(ret.src.bytes).out)]_vars

\* A read has returned the two characters transcoded from the file "b:".
C9_Witness ==
  /\ Live
  /\ ret.op = "readCalibrationCache"
  /\ ret.length = 2
  /\ mCalibrationCache = <<"b", NL>>

\* C10: getAlgorithm returns the selector of the key given at construction,
\* in every state of the object.
C10_AlgorithmMatchesKey ==
  (Live /\ built.algo \in AlgoKeys)
    => /\ built.algo = "legacy" => getAlgorithm = kLEGACY_CALIBRATION
       /\ built.algo = "entropy" => getAlgorithm = kENTROPY_CALIBRATION
       /\ built.algo = "entropy_2" => getAlgorithm = kENTROPY_CALIBRATION_2
       /\ built.algo = "minmax" => getAlgorithm = kMINMAX_CALIBRATION

\* A cache-replay object built with entropy_2, after a cache write.
C10_Witness ==
  /\ Live
  /\ built.mode = "cache"
  /\ built.algo = "entropy_2"
  /\ getAlgorithm = kENTROPY_CALIBRATION_2
  /\ ret.op = "writeCalibrationCache"

\* C11: no object is ever built from a key that is not in the table: such a
\* construction ends the process.
C11_UnknownKeyIsFatal ==
  Live => built.algo \in AlgoKeys

\* C12: getBatchSize returns the batch size fixed at construction (the
\* argument in cache mode, what the source reported in stream mode) in every
\* state of the object, whatever calls came in between.
C12_BatchSizeFixed ==
  Live => getBatchSize = built.batchSize

\* A stream-fed object after the call that found its source exhausted, and a
\* cache-replay object after a cache write.
C12_Witness ==
  /\ Live
  /\ getBatchSize = MaxBatchSize
  /\ \/ /\ built.mode = "stream"
        /\ ret.op = "getBatch"
        /\ ret.val = FALSE
        /\ mStream.left = 0
     \/ /\ built.mode = "cache"
        /\ ret.op = "writeCalibrationCache"

\* The number a hex text denotes.
RECURSIVE HexValue(_)
HexValue(h) ==
  IF h = <<>> THEN 0
  ELSE HexBase * HexValue(SubSeq(h, 1, Len(h) - 1))
         + (CHOOSE j \in 1..Len(HexChars) : HexChars[j] = h[Len(h)]) - 1

\* The binary32 value with the given bits (sign 0, normal or zero), as
\* mantissa m and exponent e: its value is m * 2^(e - 23).
DecodeFloat(bits) ==
  IF bits = 0 THEN FZero
  ELSE [m |-> MantOne + (bits % MantOne), e |-> (bits \div MantOne) - ExpBias]

\* 127 * x differs from num / den by less than 127 units in the last place
\* of x, that is x is within one unit in its last place of num / den / 127.
\* The products are taken on the two halves of the mantissa.
Half == Pow(2, 12)
WithinRounding(x, num, den) ==
  IF x.m = 0 THEN num = 0
  ELSE
    /\ x.e <= 11
    /\ LET c == ScaleDivisor * den
           dh == c * (x.m \div Half) - num * Pow(2, 11 - x.e)
           dl == c * (x.m % Half)
       IN  /\ dh <= Half /\ dh >= 0 - Half
           /\ dh * Half + dl < c
           /\ dh * Half + dl > 0 - c

\* The hex field of the single line written for the source line t:s.
HexField == SubSeq(cacheFile.bytes, 4, Len(cacheFile.bytes) - 1)
ScaleText == SubSeq(ret.src.bytes, 3, Len(ret.src.bytes) - 1)

\* C13: for a source line t:s with a decimal scale s the line written is
\* t, colon, space and a hex text of lowercase digits without padding; the
\* binary32 value with those bits is s / 127 to within rounding.
C13_HexIsScaledFloat ==
  (Transcoded /\ ret.src \in HexSources)
    => /\ Len(cacheFile.bytes) > 4
       /\ SubSeq(cacheFile.bytes, 1, 3) = <<"t", Delim, " ">>
       /\ cacheFile.bytes[Len(cacheFile.bytes)] = NL
       /\ IsHexText(HexField)
       /\ Len(HexField) <= 8
       /\ (HexField[1] = "0" => HexField = <<"0">>)
       /\ WithinRounding(DecodeFloat(HexValue(HexField)),
                         ParseDecimal(ScaleText).num, ParseDecimal(ScaleText).den)

\* t:1.0 has been written as t: 3c010204, the bits of 1.0f / 127.0f.
C13_Witness ==
  /\ Transcoded
  /\ ret.src = File(<<"t", Delim, "1", ".", "0", NL>>)
  /\ cacheFile.bytes = <<"t", Delim, " ", "3", "c", "0", "1", "0", "2", "0", "4", NL>>

\* C14: a writeCalibrationCache call on a path that cannot be opened for
\* writing returns as any other call does and changes nothing: the cache
\* file, the held string, the device buffers, the batch size and the
\* selector are as before.
C14_UnwritableWriteIsSilent ==
  [][(Live /\ ~writable /\ ret'.op = "writeCalibrationCache")
       => /\ phase' = "live"
          /\ cacheFile' = cacheFile
          /\ mCalibrationCache' = mCalibrationCache
          /\ dev' = dev
          /\ m_buffers' = m_buffers
          /\ getBatchSize' = getBatchSize
          /\ getAlgorithm' = getAlgorithm]_vars

\* A two-byte write was attempted on an unwritable path whose file holds y.
C14_Witness ==
  /\ Live
  /\ ~writable
  /\ ret.op = "writeCalibrationCache"
  /\ ret.length = 2
  /\ cacheFile = File(<<"y">>)

\* C15: over a pass of a stream-fed object called with its number of inputs,
\* a getBatch call on a source that has a batch left returns true, moves the
\* source on by exactly one batch and leaves that batch, the next in source
\* order, in the device buffers; a call on an exhausted source returns false
\* and moves nothing; no other operation moves the source.  So a source of
\* n batches gives n true returns, one copy of each batch in order, and then
\* false.
C15_OneBatchPerCall ==
  [][(Live /\ mStream.present /\ phase' = "live")
       => IF ret'.op = "getBatch"
          THEN ret'.nbBindings = Len(m_buffers)
               => IF mStream.left > 0
                  THEN /\ ret'.val = TRUE
                       /\ mStream'.cur = mStream.cur + 1
                       /\ mStream'.left = mStream.left - 1
                       /\ mStream.cur + mStream.left = MaxBatches
                       /\ \A i \in 1..Len(m_buffers) :
                            dev'[m_buffers[i]].data
                              = HostBatch(mStream.cur + 1, i,
                                          mBatchSize * mInputBytes[i])
                  ELSE /\ ret'.val = FALSE
                       /\ mStream' = mStream
                       /\ mStream.cur = MaxBatches
                       /\ dev' = dev
          ELSE mStream' = mStream /\ dev' = dev]_vars

\* The pass is over: the call after the last batch returned false, and the
\* buffers of a source with the most inputs still hold the last batch.
C15_Witness ==
  /\ Live
  /\ ret.op = "getBatch"
  /\ ret.val = FALSE
  /\ ret.nbBindings = MaxInputs
  /\ Len(m_buffers) = MaxInputs
  /\ mStream.cur = MaxBatches
  /\ mStream.left = 0
  /\ \A i \in 1..MaxInputs :
       dev[m_buffers[i]].data = HostBatch(MaxBatches, i, mBatchSize * mInputBytes[i])

\* The device addresses that hold an allocation.
Allocated == {a \in DevAddrs : dev[a].allocated}

BuffersOf(bufs) == {bufs[i] : i \in 1..Len(bufs)}

\* C16: while a stream-fed object lives the allocated device buffers are
\* exactly the ones its constructor allocated, one per input, and no step
\* between two live states changes what is allocated; the destructor step
\* finds every buffer of m_buffers allocated, no buffer listed twice, and
\* leaves none allocated; a cache-replay object has no allocation while it
\* lives and none after its destructor.
C16_BufferLifetime ==
  [][/\ (phase' = "live" /\ built'.mode = "stream")
          => /\ Allocated' = BuffersOf(built'.buffers)
             /\ Cardinality(Allocated') = Len(built'.bytes)
     /\ (phase' \in {"live", "destroyed"} /\ built'.mode = "cache")
          => Allocated' = {}
     /\ (phase = "live" /\ phase' = "live") => Allocated' = Allocated
     /\ phase' = "destroyed"
          => /\ phase = "live"
             /\ ret'.op = "dtor"
             /\ Allocated = BuffersOf(m_buffers)
             /\ Cardinality(Allocated) = Len(m_buffers)
             /\ Allocated' = {}]_vars

\* A stream-fed object with the most inputs was destroyed after its whole
\* pass: nothing is allocated any more.
C16_Witness ==
  /\ phase = "destroyed"
  /\ built.mode = "stream"
  /\ Len(built.buffers) = MaxInputs
  /\ built.batchSize = MaxBatchSize
  /\ mStream.cur = MaxBatches
  /\ Allocated = {}

\* C17: getRegressionCutoff returns 1.0 and readHistogramCache returns null
\* from every state of the object, and these two and writeHistogramCache
\* change nothing: not the object, not the device, not the cache file.
C17_LegacyStubs ==
  [][/\ ret'.op = "getRegressionCutoff" => ret'.val = 1
     /\ ret'.op = "readHistogramCache" => ret'.ptr = "nullptr"
     /\ ret'.op \in {"getRegressionCutoff", "readHistogramCache",
                     "writeHistogramCache"}
          => UNCHANGED <<phase, mStream, mAlgo, mBatchSize, mInputBytes,
                         m_buffers, mCalibrationCache, dev, bindings,
                         cacheFile, writable, built>>]_vars

\* writeHistogramCache was called on an object whose cache file holds the
\* calibration cache written before, and the file still holds it.
C17_Witness ==
  /\ Live
  /\ ret.op = "writeHistogramCache"
  /\ built.mode = "stream"
  /\ mStream.cur = MaxBatches
  /\ cacheFile = File(<<"x">>)

\* C18: a getBatch call on an object built by the cache-replay constructor
\* never ends the process on an absent batch source.
C18_CacheModeGetBatchSafe ==
  [][(Live /\ built.mode = "cache") => phase' # "crashed"]_vars

\* C19: the held string changes only in a readCalibrationCache call that
\* finds the file; a read that misses, every write, every setScaleFile and
\* every getBatch leave it as the last successful read left it.
C19_HeldCacheChangesOnlyOnRead ==
  [][(Live /\ phase' = "live" /\ mCalibrationCache' # mCalibrationCache)
       => /\ ret'.op = "readCalibrationCache"
          /\ ret'.ptr = "mCalibrationCache"
          /\ cacheFile.exists]_vars

\* A read has missed while the object still holds the two bytes of an
\* earlier read.
C19_Witness ==
  /\ Live
  /\ ret.op = "readCalibrationCache"
  /\ ret.ptr = "nullptr"
  /\ ~cacheFile.exists
  /\ mCalibrationCache = <<"x", "y">>

====
